---- MODULE Spec2Model ----
(***************************************************************************)
(* Model of gosample/oidc:                                                 *)
(*   - ReuseTokenSource (oidc package): a mutex-guarded one-token cache    *)
(*     in front of a wrapped TokenSource, with reset().                    *)
(*   - callbackHandler (login package): the HTTP handler that receives the *)
(*     provider's redirect, validates it, exchanges the code and posts one *)
(*     callbackMsg on the callback channel.                                *)
(* The two subsystems share no state; each has its own specification.      *)
(***************************************************************************)
EXTENDS Naturals, Sequences, FiniteSets

(* ------------------------------ bounds --------------------------------- *)
\* Number of goroutines that call OIDCToken() / reset() on one instance.
NumGoroutines == 2
\* Number of distinct tokens the wrapped source / the exchange may hand out.
NumTokens == 2
\* Number of callback requests that may reach one handler.
NumRequests == 2

Goroutines == 1..NumGoroutines
Tokens == 1..NumTokens
\* The nil *Token, and the unlocked mutex.
Nil == 0

VARIABLES
    \* ---- ReuseTokenSource ----
    t,            \* s.t: the cached token, Nil when absent
    mu,           \* s.mu: the goroutine holding the mutex, Nil when unlocked
    pc,           \* per goroutine: "idle", "lock", "crit", "fetch"
    op,           \* per goroutine: the operation in progress, "get" or "reset"
    seen,         \* per goroutine: what its OIDCToken() call read under the lock
    behind,       \* per goroutine (history): was the call issued while another
                  \* call's delegated fetch was in flight, and how that fetch ended
    last,         \* history: the most recently completed call on the instance
    prev,         \* history: the completed call before `last`, abridged
    resetPending, \* history: reset() ran and no fetch has re-filled the cache since
    \* ---- callbackHandler and the login attempt it serves ----
    expectedState, \* the state value the handler was built with
    oidcCtx,       \* the flow's context the handler was built with
    listening,     \* the local listener accepts requests
    hpc,           \* per request: "new", "exchange", "send", "done"
    req,           \* per request: the request (form and context) being handled
    msg,           \* per request: the callbackMsg the handler built
    resp,          \* per request: what was written to the http.ResponseWriter
    exchArgs,      \* per request: the arguments of its oidcClient.Exchange call
    sends,         \* per request (history): completed sends on callbackChan
    chan,          \* callbackChan: the buffered messages
    orch,          \* the waiting side: "waiting", "received", "cancelled"
    result,        \* the message the waiting side received
    \* ---- TokenRefresher ----
    refreshToken,  \* tf.refreshToken
    scopes,        \* tf.cfg.Scopes
    rpc,           \* "idle", or "token": inside tf.client.token(...)
    rsent,         \* the url.Values of the request in flight
    rlast,         \* history: the most recently completed OIDCToken() call
    rprev          \* history: the completed call before `rlast`, abridged

tsVars == <<t, mu, pc, op, seen, behind, last, prev, resetPending>>
cbVars == <<expectedState, oidcCtx, listening, hpc, req, msg, resp, exchArgs,
            sends, chan, orch, result>>
rfVars == <<refreshToken, scopes, rpc, rsent, rlast, rprev>>
vars == <<tsVars, cbVars, rfVars>>

\* behind: st is "no", "inflight" (the other call's fetch has not returned),
\* "failed" or "cached" (it returned an error / cached token tok).
NotBehind == [st |-> "no", tok |-> Nil]
NoSeen == [tok |-> Nil, verdict |-> "unset", afterReset |-> FALSE]
NoCall == [op |-> "none", seen |-> NoSeen, tok |-> Nil, err |-> FALSE,
           fetches |-> 0, behind |-> NotBehind, tAfter |-> Nil]
NoPrev == [kind |-> "none", tok |-> Nil]

\* The abridged form of a completed call, kept as `prev`: its kind and the
\* token it returned (for reset(): the token it dropped).
Abridge(c) ==
    IF c.op = "none" THEN NoPrev
    ELSE IF c.op = "reset" THEN [kind |-> "reset", tok |-> c.seen.tok]
    ELSE IF c.err THEN [kind |-> "failed", tok |-> Nil]
    ELSE IF c.fetches = 0 THEN [kind |-> "hit", tok |-> c.tok]
    ELSE [kind |-> "fetched", tok |-> c.tok]

\* NewReuseTokenSource(ctx, t, src): starts with the token it is given (or nil).
TokenInit ==
    /\ t \in Tokens \cup {Nil}
    /\ mu = Nil
    /\ pc = [g \in Goroutines |-> "idle"]
    /\ op = [g \in Goroutines |-> "get"]
    /\ seen = [g \in Goroutines |-> NoSeen]
    /\ behind = [g \in Goroutines |-> NotBehind]
    /\ last = NoCall
    /\ prev = NoPrev
    /\ resetPending = FALSE

\* Some OIDCToken() call is inside s.new.OIDCToken() after finding its cached
\* token invalid.
RefreshInFlight ==
    \E h \in Goroutines : pc[h] = "fetch" /\ seen[h].verdict = "invalid"

\* A goroutine calls OIDCToken() or reset(): it is now at s.mu.Lock().
Call(g, o) ==
    /\ pc[g] = "idle"
    /\ pc' = [pc EXCEPT ![g] = "lock"]
    /\ op' = [op EXCEPT ![g] = o]
    /\ behind' = [behind EXCEPT ![g] =
                    IF o = "get" /\ RefreshInFlight
                    THEN [st |-> "inflight", tok |-> Nil] ELSE NotBehind]
    /\ UNCHANGED <<t, mu, seen, last, prev, resetPending>>
    /\ UNCHANGED <<cbVars, rfVars>>

\* s.mu.Lock() without waiting for the holder (mutant of Lock).
LockNoWait(g) ==
    /\ pc[g] = "lock"
    /\ mu' = g
    /\ pc' = [pc EXCEPT ![g] = "crit"]
    /\ UNCHANGED <<t, op, seen, behind, last, prev, resetPending>>
    /\ UNCHANGED <<cbVars, rfVars>>

\* s.mu.Lock(): returns once the mutex is free.
Lock(g) ==
    /\ pc[g] = "lock"
    /\ mu = Nil
    /\ mu' = g
    /\ pc' = [pc EXCEPT ![g] = "crit"]
    /\ UNCHANGED <<t, op, seen, behind, last, prev, resetPending>>
    /\ UNCHANGED <<cbVars, rfVars>>

\* The call of g returns (the deferred s.mu.Unlock() runs); c records it,
\* with the cache as the call leaves it.
Return(g, c) ==
    /\ mu' = Nil
    /\ pc' = [pc EXCEPT ![g] = "idle"]
    /\ seen' = [seen EXCEPT ![g] = NoSeen]
    /\ last' = [c EXCEPT !.tAfter = t']
    /\ prev' = Abridge(last)
    /\ UNCHANGED <<cbVars, rfVars>>

\* The outcome of the wrapped source's fetch of h, as seen by the calls that
\* were issued while it was in flight.
Outcome(h, res) ==
    [g \in Goroutines |->
        IF behind[g].st = "inflight" /\ seen[h].verdict = "invalid"
        THEN res ELSE behind[g]]

\* What OIDCToken() reads under the lock: s.t and, when s.t != nil, the answer
\* of s.t.IsValid(s.ctx, s.Verifier()).
Observe(valid) ==
    [tok |-> t,
     verdict |-> IF t = Nil THEN "none" ELSE IF valid THEN "valid" ELSE "invalid",
     afterReset |-> resetPending]

\* The cached token is returned: return s.t, nil.
ReturnCached(g, valid) ==
    /\ t' = t
    /\ Return(g, [op |-> "get", seen |-> Observe(valid), tok |-> t,
                  err |-> FALSE, fetches |-> 0, behind |-> behind[g],
                  tAfter |-> Nil])
    /\ behind' = [behind EXCEPT ![g] = NotBehind]
    /\ UNCHANGED <<op, resetPending>>

\* Control reaches t, err := s.new.OIDCToken().
BeginFetch(g, valid) ==
    /\ pc' = [pc EXCEPT ![g] = "fetch"]
    /\ seen' = [seen EXCEPT ![g] = Observe(valid)]
    /\ UNCHANGED <<t, mu, op, behind, last, prev, resetPending>>
    /\ UNCHANGED <<cbVars, rfVars>>

\* A cached token is returned without asking the verifier (mutant of
\* CheckCached).
CheckCachedNoVerify(g, valid) ==
    /\ pc[g] = "crit" /\ op[g] = "get"
    /\ IF t # Nil THEN ReturnCached(g, valid) ELSE BeginFetch(g, valid)

\* The wrapped source is asked even when the cached token is valid (mutant of
\* CheckCached).
CheckCachedAlwaysFetch(g, valid) ==
    /\ pc[g] = "crit" /\ op[g] = "get"
    /\ BeginFetch(g, valid)

\* if s.t != nil { err := s.t.IsValid(s.ctx, s.Verifier()); if err == nil
\* { return s.t, nil } }; otherwise fall through to s.new.OIDCToken().
\* `valid` is the verifier's answer; it is only asked when a token is cached.
CheckCached(g, valid) ==
    /\ pc[g] = "crit" /\ op[g] = "get"
    /\ IF t # Nil /\ valid THEN ReturnCached(g, valid) ELSE BeginFetch(g, valid)

\* The fetched token is returned but not cached (mutant of FetchOK).
FetchOKNoStore(g, tok) ==
    /\ pc[g] = "fetch"
    /\ t' = t
    /\ resetPending' = FALSE
    /\ Return(g, [op |-> "get", seen |-> seen[g], tok |-> tok, err |-> FALSE,
                  fetches |-> 1, behind |-> behind[g], tAfter |-> Nil])
    /\ behind' = [Outcome(g, [st |-> "cached", tok |-> tok])
                    EXCEPT ![g] = NotBehind]
    /\ UNCHANGED op

\* t, err := s.new.OIDCToken() returned a token: s.t = t; return t, nil.
FetchOK(g, tok) ==
    /\ pc[g] = "fetch"
    /\ t' = tok
    /\ resetPending' = FALSE
    /\ Return(g, [op |-> "get", seen |-> seen[g], tok |-> tok, err |-> FALSE,
                  fetches |-> 1, behind |-> behind[g], tAfter |-> Nil])
    /\ behind' = [Outcome(g, [st |-> "cached", tok |-> tok])
                    EXCEPT ![g] = NotBehind]
    /\ UNCHANGED op

\* A failed fetch that also drops the cached token (mutant of FetchErr).
FetchErrClears(g) ==
    /\ pc[g] = "fetch"
    /\ t' = Nil
    /\ Return(g, [op |-> "get", seen |-> seen[g], tok |-> Nil, err |-> TRUE,
                  fetches |-> 1, behind |-> behind[g], tAfter |-> Nil])
    /\ behind' = [Outcome(g, [st |-> "failed", tok |-> Nil])
                    EXCEPT ![g] = NotBehind]
    /\ UNCHANGED <<op, resetPending>>

\* A failed fetch returns with the mutex still held (mutant of FetchErr).
FetchErrKeepsLock(g) ==
    /\ pc[g] = "fetch"
    /\ t' = t
    /\ mu' = mu
    /\ pc' = [pc EXCEPT ![g] = "idle"]
    /\ seen' = [seen EXCEPT ![g] = NoSeen]
    /\ last' = [op |-> "get", seen |-> seen[g], tok |-> Nil, err |-> TRUE,
                fetches |-> 1, behind |-> behind[g], tAfter |-> t]
    /\ prev' = Abridge(last)
    /\ behind' = [Outcome(g, [st |-> "failed", tok |-> Nil])
                    EXCEPT ![g] = NotBehind]
    /\ UNCHANGED <<op, resetPending>>
    /\ UNCHANGED <<cbVars, rfVars>>

\* t, err := s.new.OIDCToken() returned an error: return nil, err.
FetchErr(g) ==
    /\ pc[g] = "fetch"
    /\ t' = t
    /\ Return(g, [op |-> "get", seen |-> seen[g], tok |-> Nil, err |-> TRUE,
                  fetches |-> 1, behind |-> behind[g], tAfter |-> Nil])
    /\ behind' = [Outcome(g, [st |-> "failed", tok |-> Nil])
                    EXCEPT ![g] = NotBehind]
    /\ UNCHANGED <<op, resetPending>>

\* reset() that leaves the cached token in place (mutant of Reset).
ResetKeeps(g) ==
    /\ pc[g] = "crit" /\ op[g] = "reset"
    /\ t' = t
    /\ resetPending' = TRUE
    /\ Return(g, [NoCall EXCEPT !.op = "reset", !.seen.tok = t])
    /\ UNCHANGED <<op, behind>>

\* reset(): s.t = nil under the mutex.
Reset(g) ==
    /\ pc[g] = "crit" /\ op[g] = "reset"
    /\ t' = Nil
    /\ resetPending' = TRUE
    /\ Return(g, [NoCall EXCEPT !.op = "reset", !.seen.tok = t])
    /\ UNCHANGED <<op, behind>>

TokenNext ==
    \E g \in Goroutines :
        \/ \E o \in {"get", "reset"} : Call(g, o)
        \/ Lock(g)
        \/ \E valid \in BOOLEAN : CheckCached(g, valid)
        \/ \E tok \in Tokens : FetchOK(g, tok)
        \/ FetchErr(g)
        \/ Reset(g)

(* ---------------------- callbackHandler (login) ------------------------ *)

Requests == 1..NumRequests

\* Strings are sequences of words; the empty string is <<>>. url.Values.Get
\* returns "" for an absent parameter, so absent and empty are one value.
Empty == <<>>
\* A nil error.
NoErr == <<>>
StateVals == {Empty, <<"a">>, <<"a", "b">>}
ErrorVals == {Empty, <<"access_denied">>}
DescVals == {Empty, <<"user", "cancelled">>}
CodeVals == {Empty, <<"c1">>}
\* The error oidcClient.Exchange may return.
ExchangeErrs == {<<"exchange", "failed">>}

\* A context: the value under oidc.HTTPClientCtxKey ("none": no value) and
\* the context's other values.
NoClient == "none"
ReqCtxs == [client : {NoClient, "reqClient"}, other : {"reqValues"}]
FlowCtxs == [client : {NoClient, "flowClient"}, other : {"flowValues"}]

\* A request: whether r.ParseForm() succeeds, the form's parameters, and
\* r.Context().
AllRequests ==
    [parseOK : BOOLEAN, state : StateVals, error : ErrorVals,
     desc : DescVals, code : CodeVals, ctx : ReqCtxs]
\* The requests sent when several reach the same handler: well-formed
\* redirects with a code, with either state value, with and without a
\* provider error.
RedirectRequests ==
    {q \in AllRequests :
        /\ q.parseOK /\ q.state # Empty /\ q.code # Empty /\ q.desc = Empty
        /\ q.ctx.client = NoClient}

NoRequest == [parseOK |-> FALSE, state |-> Empty, error |-> Empty,
              desc |-> Empty, code |-> Empty,
              ctx |-> [client |-> NoClient, other |-> "reqValues"]]
NoMsg == [token |-> Nil, err |-> NoErr]
NoResp == [status |-> 0, body |-> Empty]
NoArgs == [ctx |-> [client |-> NoClient, other |-> "unset"], code |-> Empty]

\* Capacity of callbackChan.
ChanCap == 1

\* s contains sub as a contiguous run.
Contains(s, sub) ==
    \E i \in 1..(Len(s) + 1) :
        /\ i + Len(sub) - 1 <= Len(s)
        /\ SubSeq(s, i, i + Len(sub) - 1) = sub

\* The provider's error_description is left out of the error (mutant of
\* parseCallbackRequest).
parseCallbackRequestNoDesc(form) ==
    IF form.state = Empty
    THEN [code |-> Empty, state |-> Empty,
          err |-> <<"User session error. No state parameter.">>]
    ELSE IF form.error # Empty
    THEN [code |-> Empty, state |-> Empty,
          err |-> <<"Got error from provider:">> \o form.error]
    ELSE IF form.code = Empty
    THEN [code |-> Empty, state |-> Empty, err |-> <<"Missing code token.">>]
    ELSE [code |-> form.code, state |-> form.state, err |-> NoErr]

\* parseCallbackRequest(form): (code, state, err).
parseCallbackRequest(form) ==
    IF form.state = Empty
    THEN [code |-> Empty, state |-> Empty,
          err |-> <<"User session error. No state parameter.">>]
    ELSE IF form.error # Empty
    THEN [code |-> Empty, state |-> Empty,
          err |-> <<"Got error from provider:">> \o form.error
                    \o <<"Desc:">> \o form.desc]
    ELSE IF form.code = Empty
    THEN [code |-> Empty, state |-> Empty, err |-> <<"Missing code token.">>]
    ELSE [code |-> form.code, state |-> form.state, err |-> NoErr]

\* OKCallbackResponse(w, r): WriteHeader(200) and the completion text.
OKCallbackResponse ==
    [status |-> 200,
     body |-> <<"OIDC authentication flow is completed.",
                "You can close browser tab.">>]

\* An error response that shows the error (mutant of ErrCallbackResponse).
ErrCallbackResponseLeaks(err) ==
    [status |-> 200, body |-> <<"OIDC authentication flow failed:">> \o err]

\* ErrCallbackResponse(w, r, err): the same response as on success; err is
\* not used.
ErrCallbackResponse(err) ==
    [status |-> 200,
     body |-> <<"OIDC authentication flow is completed.",
                "You can close browser tab.">>]

\* The flow's client wins over the request's (mutant of mergeContexts).
mergeContextsFlowFirst(originalCtx, octx) ==
    IF octx.client # NoClient
    THEN [originalCtx EXCEPT !.client = octx.client]
    ELSE originalCtx

\* mergeContexts(originalCtx, oidcCtx).
mergeContexts(originalCtx, octx) ==
    IF originalCtx.client # NoClient
    THEN originalCtx
    ELSE [originalCtx EXCEPT !.client = octx.client]

\* state != expectedState compared on a common prefix only (mutant of
\* StateMismatch).
StateMismatchPrefix(state, expected) ==
    \E i \in 1..Len(expected) : i > Len(state) \/ state[i] # expected[i]

\* if state != expectedState
StateMismatch(state, expected) == state # expected

\* The message is built and the handler goes to the channel send with no
\* response written (mutant of errRespond).
errRespondNoResponse(r, err) ==
    /\ msg' = [msg EXCEPT ![r] = [token |-> Nil, err |-> err]]
    /\ resp' = resp
    /\ hpc' = [hpc EXCEPT ![r] = "send"]

\* errRespond(w, r, err, callbackChan) up to its send: the message is built,
\* ErrCallbackResponse is written, and the handler is at the channel send.
errRespond(r, err) ==
    /\ msg' = [msg EXCEPT ![r] = [token |-> Nil, err |-> err]]
    /\ resp' = [resp EXCEPT ![r] = ErrCallbackResponse(err)]
    /\ hpc' = [hpc EXCEPT ![r] = "send"]

\* The handler is invoked for request q and runs up to its first blocking
\* call: the channel send of errRespond, or oidcClient.Exchange.
Handle(r, q) ==
    /\ listening
    /\ hpc[r] = "new"
    /\ req' = [req EXCEPT ![r] = q]
    /\ LET ctx == mergeContexts(q.ctx, oidcCtx)
           p == parseCallbackRequest(q)
       IN IF ~q.parseOK
          THEN /\ errRespond(r, <<"Failed to parse request form. Err:",
                                  "invalid URL escape">>)
               /\ UNCHANGED exchArgs
          ELSE IF p.err # NoErr
          THEN /\ errRespond(r, p.err)
               /\ UNCHANGED exchArgs
          ELSE IF StateMismatch(p.state, expectedState)
          THEN /\ errRespond(r, <<"Invalid state parameter. Got">> \o p.state
                                  \o <<", expected:">> \o expectedState)
               /\ UNCHANGED exchArgs
          ELSE /\ hpc' = [hpc EXCEPT ![r] = "exchange"]
               /\ exchArgs' = [exchArgs EXCEPT ![r] =
                                 [ctx |-> ctx, code |-> p.code]]
               /\ UNCHANGED <<msg, resp>>
    /\ UNCHANGED <<expectedState, oidcCtx, listening, sends, chan, orch, result>>
    /\ UNCHANGED <<tsVars, rfVars>>

\* oidcClient.Exchange returned a token: the message is built,
\* OKCallbackResponse is written, and the handler is at the channel send.
ExchangeOK(r, tok) ==
    /\ hpc[r] = "exchange"
    /\ msg' = [msg EXCEPT ![r] = [token |-> tok, err |-> NoErr]]
    /\ resp' = [resp EXCEPT ![r] = OKCallbackResponse]
    /\ hpc' = [hpc EXCEPT ![r] = "send"]
    /\ UNCHANGED <<expectedState, oidcCtx, listening, req, exchArgs, sends,
                   chan, orch, result>>
    /\ UNCHANGED <<tsVars, rfVars>>

\* oidcClient.Exchange returned an error: errRespond(w, r, err, callbackChan).
ExchangeErr(r, err) ==
    /\ hpc[r] = "exchange"
    /\ errRespond(r, err)
    /\ UNCHANGED <<expectedState, oidcCtx, listening, req, exchArgs, sends,
                   chan, orch, result>>
    /\ UNCHANGED <<tsVars, rfVars>>

\* The send completes but the handler does not return: it is at a send again
\* (mutant of Send).
SendAndStay(r) ==
    /\ hpc[r] = "send"
    /\ Len(chan) < ChanCap
    /\ sends[r] < 2
    /\ chan' = Append(chan, msg[r])
    /\ sends' = [sends EXCEPT ![r] = @ + 1]
    /\ UNCHANGED <<expectedState, oidcCtx, listening, hpc, req, msg, resp,
                   exchArgs, orch, result>>
    /\ UNCHANGED <<tsVars, rfVars>>

\* callbackChan <- callbackResponse; return. The send completes when the
\* channel has room.
Send(r) ==
    /\ hpc[r] = "send"
    /\ Len(chan) < ChanCap
    /\ chan' = Append(chan, msg[r])
    /\ sends' = [sends EXCEPT ![r] = @ + 1]
    /\ hpc' = [hpc EXCEPT ![r] = "done"]
    /\ UNCHANGED <<expectedState, oidcCtx, listening, req, msg, resp,
                   exchArgs, orch, result>>
    /\ UNCHANGED <<tsVars, rfVars>>

\* The waiting side reads one message from callbackChan and releases the
\* listener.
OrchReceive ==
    /\ orch = "waiting"
    /\ chan # <<>>
    /\ result' = Head(chan)
    /\ chan' = Tail(chan)
    /\ orch' = "received"
    /\ listening' = FALSE
    /\ UNCHANGED <<expectedState, oidcCtx, hpc, req, msg, resp, exchArgs, sends>>
    /\ UNCHANGED <<tsVars, rfVars>>

\* The waiting side times out or is cancelled and releases the listener
\* without waiting for requests in flight.
OrchCancel ==
    /\ orch = "waiting"
    /\ orch' = "cancelled"
    /\ listening' = FALSE
    /\ UNCHANGED <<expectedState, oidcCtx, hpc, req, msg, resp, exchArgs, sends,
                   chan, result>>
    /\ UNCHANGED <<tsVars, rfVars>>

\* The state of a login attempt whose handler has been built and whose
\* listener is up; no request has arrived.
AttemptInit(states, ctxs) ==
    /\ expectedState \in states
    /\ oidcCtx \in ctxs
    /\ listening = TRUE
    /\ hpc = [r \in Requests |-> "new"]
    /\ req = [r \in Requests |-> NoRequest]
    /\ msg = [r \in Requests |-> NoMsg]
    /\ resp = [r \in Requests |-> NoResp]
    /\ exchArgs = [r \in Requests |-> NoArgs]
    /\ sends = [r \in Requests |-> 0]
    /\ chan = <<>>
    /\ orch = "waiting"
    /\ result = NoMsg

(* --------------------------- TokenRefresher ---------------------------- *)

\* Refresh token values; Empty is "no refresh token".
RefreshVals == {Empty, <<"r1">>, <<"r2">>}
\* Values of cfg.Scopes.
ScopeVals == {<<>>, <<"openid">>, <<"openid", "email">>}
\* The error tf.client.token may return.
TokenEndpointErrs == {<<"token", "endpoint", "failed">>}
GrantTypeRefreshToken == <<"refresh_token">>

\* strings.Join(list, " ").
RECURSIVE Join(_)
Join(list) ==
    IF list = <<>> THEN Empty
    ELSE IF Len(list) = 1 THEN <<list[1]>>
    ELSE <<list[1], " ">> \o Join(Tail(list))

\* url.Values; a key that is not set reads as Empty.
NoValues == [grant_type |-> Empty, refresh_token |-> Empty, scope |-> Empty]
\* v := url.Values{"grant_type": ..., "refresh_token": {tf.refreshToken}};
\* if len(tf.cfg.Scopes) > 0 { v.Set("scope", strings.Join(tf.cfg.Scopes, " ")) }
RefreshRequest ==
    [grant_type |-> GrantTypeRefreshToken,
     refresh_token |-> refreshToken,
     scope |-> IF Len(scopes) > 0 THEN Join(scopes) ELSE Empty]

\* A completed call: kind is "norefresh" (no refresh token held), "err" (the
\* token endpoint failed) or "ok"; held/heldAfter are tf.refreshToken before
\* and after; calls counts tf.client.token calls; sent is the request made;
\* tok and respRT are the returned token and its RefreshToken.
NoRefresherCall ==
    [kind |-> "none", held |-> Empty, heldAfter |-> Empty, calls |-> 0,
     sent |-> NoValues, tok |-> Nil, err |-> NoErr, respRT |-> Empty]
NoRefresherPrev == [kind |-> "none", sentRT |-> Empty, respRT |-> Empty]
AbridgeRefresher(c) ==
    [kind |-> c.kind, sentRT |-> c.sent.refresh_token, respRT |-> c.respRT]

\* NewTokenRefresher(ctx, client, cfg, refreshToken).
NewTokenRefresher(tokens, scopeLists) ==
    /\ refreshToken \in tokens
    /\ scopes \in scopeLists
    /\ rpc = "idle"
    /\ rsent = NoValues
    /\ rlast = NoRefresherCall
    /\ rprev = NoRefresherPrev

\* The call returns; c records it, with tf.refreshToken as the call leaves it.
RefresherReturn(c) ==
    /\ rpc' = "idle"
    /\ rsent' = NoValues
    /\ rlast' = [c EXCEPT !.heldAfter = refreshToken']
    /\ rprev' = AbridgeRefresher(rlast)
    /\ UNCHANGED scopes
    /\ UNCHANGED <<tsVars, cbVars>>

\* The request is sent even when no refresh token is held (mutant of
\* RefresherCall).
RefresherCallNoCheck ==
    /\ rpc = "idle"
    /\ rpc' = "token"
    /\ rsent' = RefreshRequest
    /\ UNCHANGED <<refreshToken, scopes, rlast, rprev>>
    /\ UNCHANGED <<tsVars, cbVars>>

\* tf.OIDCToken() up to its call of tf.client.token: with no refresh token it
\* returns nil and an error at once; otherwise the request is built and sent.
RefresherCall ==
    /\ rpc = "idle"
    /\ IF refreshToken = Empty
       THEN /\ refreshToken' = refreshToken
            /\ RefresherReturn(
                 [NoRefresherCall EXCEPT
                    !.kind = "norefresh", !.held = refreshToken,
                    !.err = <<"oauth2: token expired and refresh token is not set">>])
       ELSE /\ rpc' = "token"
            /\ rsent' = RefreshRequest
            /\ UNCHANGED <<refreshToken, scopes, rlast, rprev>>
            /\ UNCHANGED <<tsVars, cbVars>>

\* What a successful call records.
RefreshedCall(tok, rt) ==
    [kind |-> "ok", held |-> refreshToken, heldAfter |-> Empty, calls |-> 1,
     sent |-> rsent, tok |-> tok, err |-> NoErr, respRT |-> rt]

\* The held refresh token is never replaced (mutant of TokenEndpointOK).
TokenEndpointOKNoRotate(tok, rt) ==
    /\ rpc = "token"
    /\ refreshToken' = refreshToken
    /\ RefresherReturn(RefreshedCall(tok, rt))

\* The held refresh token is kept when the response carries none (mutant of
\* TokenEndpointOK).
TokenEndpointOKKeepsOnEmpty(tok, rt) ==
    /\ rpc = "token"
    /\ refreshToken' = IF rt # Empty THEN rt ELSE refreshToken
    /\ RefresherReturn(RefreshedCall(tok, rt))

\* tf.client.token returned tk: if tf.refreshToken != tk.RefreshToken
\* { tf.refreshToken = tk.RefreshToken }; return tk, nil.
TokenEndpointOK(tok, rt) ==
    /\ rpc = "token"
    /\ refreshToken' = IF refreshToken # rt THEN rt ELSE refreshToken
    /\ RefresherReturn(RefreshedCall(tok, rt))

\* What a call records whose token endpoint call failed.
FailedRefresh(err) ==
    [kind |-> "err", held |-> refreshToken, heldAfter |-> Empty, calls |-> 1,
     sent |-> rsent, tok |-> Nil, err |-> err, respRT |-> Empty]

\* A failed call drops the held refresh token (mutant of TokenEndpointErr).
TokenEndpointErrForgets(err) ==
    /\ rpc = "token"
    /\ refreshToken' = Empty
    /\ RefresherReturn(FailedRefresh(err))

\* tf.client.token returned an error: return nil, err.
TokenEndpointErr(err) ==
    /\ rpc = "token"
    /\ refreshToken' = refreshToken
    /\ RefresherReturn(FailedRefresh(err))

\* No TokenRefresher is part of the other runs.
RefresherIdle == NewTokenRefresher({Empty}, {<<>>})

\* The token source is not part of the login attempt: it stays as constructed.
TokenIdle == TokenInit /\ t = Nil
\* No login attempt is part of the token source's runs.
AttemptIdle ==
    AttemptInit({<<"a">>}, {[client |-> NoClient, other |-> "flowValues"]})

\* One invocation of the handler, for every request and every handler.
HandlerInit == TokenIdle /\ RefresherIdle /\ AttemptInit(StateVals, FlowCtxs)

HandlerNext ==
    \/ \E q \in AllRequests : Handle(1, q)
    \/ \E tok \in Tokens : ExchangeOK(1, tok)
    \/ \E err \in ExchangeErrs : ExchangeErr(1, err)
    \/ Send(1)
    \/ OrchReceive
    \/ OrchCancel

HandlerSpec == HandlerInit /\ [][HandlerNext]_vars

\* Several redirects reach the handler of one login attempt.
CallbackInit ==
    /\ TokenIdle
    /\ RefresherIdle
    /\ AttemptInit(StateVals \ {Empty},
                   {[client |-> "flowClient", other |-> "flowValues"]})

CallbackNext ==
    \/ \E r \in Requests :
          \/ \E q \in RedirectRequests : Handle(r, q)
          \/ \E tok \in Tokens : ExchangeOK(r, tok)
          \/ \E err \in ExchangeErrs : ExchangeErr(r, err)
          \/ Send(r)
    \/ OrchReceive
    \/ OrchCancel

CallbackSpec == CallbackInit /\ [][CallbackNext]_vars

(* ------------------------- ReuseTokenSource runs ----------------------- *)

TokenSourceInit == TokenInit /\ AttemptIdle /\ RefresherIdle

TokenSpec == TokenSourceInit /\ [][TokenNext]_vars

\* The next step of the call of g that holds the mutex: the cache check, the
\* return of the wrapped source, or reset's assignment.
CriticalStep(g) ==
    \/ \E valid \in BOOLEAN : CheckCached(g, valid)
    \/ \E tok \in Tokens : FetchOK(g, tok)
    \/ FetchErr(g)
    \/ Reset(g)

\* Fair scheduling of the goroutines: the call that holds the mutex takes its
\* next step and the wrapped source returns (only the holder has such a step),
\* and a goroutine waiting at s.mu.Lock() gets the mutex when it is free again
\* and again (sync.Mutex hands the mutex to a starving waiter). Issuing a call
\* is up to the caller.
TokenFairness ==
    /\ WF_vars(\E g \in Goroutines : CriticalStep(g))
    /\ \A g \in Goroutines : SF_vars(Lock(g))

TokenFairSpec == TokenSourceInit /\ [][TokenNext]_vars /\ TokenFairness

(* --------------------------- TokenRefresher runs ----------------------- *)

\* Calls of one TokenRefresher, one after the other (OIDCToken is not safe for
\* concurrent use; ReuseTokenSource calls it under its mutex).
RefresherInit ==
    TokenIdle /\ AttemptIdle /\ NewTokenRefresher(RefreshVals, ScopeVals)

RefresherNext ==
    \/ RefresherCall
    \/ \E tok \in Tokens, rt \in RefreshVals : TokenEndpointOK(tok, rt)
    \/ \E err \in TokenEndpointErrs : TokenEndpointErr(err)

RefresherSpec == RefresherInit /\ [][RefresherNext]_vars

(* --------------------- claims on ReuseTokenSource ---------------------- *)

InCritical(g) == pc[g] \in {"crit", "fetch"}
LastIsGet == last.op = "get"
LastIsHit == LastIsGet /\ last.fetches = 0 /\ ~last.err

\* C1: at most one call of the wrapped source's OIDCToken() is in progress at
\* any time; the fetch only runs while the mutex is held by the fetching call,
\* and no other OIDCToken() or reset() is inside its read/validate/fetch/replace
\* sequence meanwhile.
C1_OneFetchInFlight ==
    /\ Cardinality({g \in Goroutines : pc[g] = "fetch"}) <= 1
    /\ \A g \in Goroutines : InCritical(g) => mu = g
    /\ \A g, h \in Goroutines : InCritical(g) /\ InCritical(h) => g = h

\* A fetch is in flight while another goroutine waits at s.mu.Lock().
C1_Witness ==
    \E g, h \in Goroutines : g # h /\ pc[g] = "fetch" /\ pc[h] = "lock"

\* C2: a call that finds a cached token the verifier reports valid returns
\* exactly that token, without error, with zero calls of the wrapped source,
\* and leaves the cache as it found it; so a cache hit that follows a
\* successful call returns the token that call returned.
C2_CacheReuse ==
    /\ (LastIsGet /\ last.seen.verdict = "valid") =>
          /\ last.tok = last.seen.tok
          /\ ~last.err
          /\ last.fetches = 0
          /\ last.tAfter = last.seen.tok
    /\ (LastIsHit /\ prev.kind \in {"hit", "fetched"}) => last.tok = prev.tok

\* Two consecutive calls both served from the cache.
C2_Witness ==
    /\ LastIsHit /\ last.seen.verdict = "valid"
    /\ prev.kind = "hit" /\ prev.tok = last.tok

\* C3 as stated: a call issued while another call's refresh is in flight
\* returns the token that refresh cached, without a fetch of its own.
C3_AsClaimed ==
    /\ \A g \in Goroutines : pc[g] = "fetch" => behind[g].st = "no"
    /\ (LastIsGet /\ last.behind.st # "no") =>
          /\ last.fetches = 0
          /\ ~last.err
          /\ last.behind.st = "cached"
          /\ last.tok = last.behind.tok

\* C3 amended: a call that finds its cached token invalid makes exactly one
\* delegated fetch; a call issued while that fetch is in flight stays at the
\* lock until the fetch has returned; it then returns the cached token without
\* a fetch of its own exactly when a token is cached and the verifier reports
\* it valid (the token the first call cached, when that call was the last to
\* write the cache), and otherwise makes exactly one fetch of its own.
C3_RefreshOnExpiry ==
    /\ \A g \in Goroutines :
          /\ pc[g] = "fetch" => seen[g].verdict \in {"none", "invalid"}
          /\ behind[g].st = "inflight" => pc[g] = "lock" /\ RefreshInFlight
    /\ (LastIsGet /\ last.seen.verdict = "invalid") => last.fetches = 1
    /\ (LastIsGet /\ last.behind.st # "no") =>
          /\ last.behind.st \in {"cached", "failed"}
          /\ last.fetches = (IF last.seen.verdict = "valid" THEN 0 ELSE 1)
          /\ last.fetches = 0 => last.tok = last.seen.tok /\ ~last.err
          /\ (/\ last.behind.st = "cached"
              /\ prev.kind = "fetched" /\ prev.tok = last.behind.tok
              /\ last.seen.verdict = "valid") => last.tok = last.behind.tok

\* A call that waited behind a refresh is served the newly cached token.
C3_Witness ==
    /\ LastIsHit /\ last.behind.st = "cached"
    /\ prev.kind = "fetched" /\ last.tok = last.behind.tok

\* C4: a call whose delegated fetch fails returns the error and no token and
\* leaves the cache exactly as it found it; the call after a failed one, when
\* it finds the cache absent or invalid, calls the wrapped source again.
C4_FetchFailure ==
    /\ (LastIsGet /\ last.err) =>
          /\ last.tok = Nil
          /\ last.fetches = 1
          /\ last.tAfter = last.seen.tok
    /\ (LastIsGet /\ prev.kind = "failed") =>
          /\ last.seen.tok = Nil \/ last.seen.verdict # "none"
          /\ last.seen.verdict \in {"none", "invalid"} => last.fetches = 1

\* A failed fetch left an (invalid) token cached, and the next call fetched
\* again.
C4_Witness ==
    /\ LastIsGet /\ prev.kind = "failed"
    /\ last.seen.verdict = "invalid" /\ last.fetches = 1

\* C5: from reset() until a fetch re-fills it the cache is absent, and every
\* OIDCToken() call that runs in that window asks no verifier and calls the
\* wrapped source; in particular the call that follows reset() does, and none
\* is served the pre-reset token from the cache.
C5_ResetForcesRefresh ==
    /\ resetPending => t = Nil
    /\ \A g \in Goroutines :
          (pc[g] = "fetch" /\ seen[g].afterReset) => seen[g].verdict = "none"
    /\ (LastIsGet /\ (last.seen.afterReset \/ prev.kind = "reset")) =>
          /\ last.seen.verdict = "none"
          /\ last.fetches = 1

\* reset() dropped a cached token and the next call fetched.
C5_Witness ==
    /\ prev.kind = "reset" /\ prev.tok # Nil
    /\ LastIsGet /\ last.fetches = 1 /\ ~last.err

(* ----------------------- claims on callbackHandler --------------------- *)

Handled(r) == hpc[r] # "new"
\* oidcClient.Exchange has been invoked for request r.
Exchanged(r) == exchArgs[r] # NoArgs
\* The handler of r has built its message and written its response.
Concluded(r) == hpc[r] \in {"send", "done"}
\* The message r's handler sent is the one on the channel or the one the
\* waiting side received (one request per run).
Delivered(r) ==
    \/ chan = <<msg[r]>>
    \/ orch = "received" /\ result = msg[r]
IsErrorOutcome(m) == m.token = Nil /\ m.err # NoErr
IsTokenOutcome(m) == m.token \in Tokens /\ m.err = NoErr

\* C6: a request whose state is absent, empty or different from expectedState
\* gets an error outcome and no token exchange; Exchange is only ever invoked
\* for a request whose state equals expectedState.
C6_StateMismatchRejected ==
    \A r \in Requests :
        /\ Exchanged(r) =>
              req[r].state = expectedState /\ req[r].state # Empty
        /\ (Handled(r) /\ (req[r].state = Empty \/ req[r].state # expectedState))
              => /\ ~Exchanged(r)
                 /\ Concluded(r)
                 /\ IsErrorOutcome(msg[r])
                 /\ hpc[r] = "done" => Delivered(r)

\* A request whose state extends the expected one was answered with the
\* invalid-state error.
C6_Witness ==
    /\ expectedState = <<"a">> /\ req[1].state = <<"a", "b">>
    /\ hpc[1] = "done" /\ orch = "received"
    /\ Contains(result.err, <<"Invalid state parameter. Got", "a", "b">>)

\* C7: over the lifetime of one login attempt at most one token exchange is
\* attempted and at most one message is sent on the callback channel, however
\* many valid requests reach the handler.
C7_SingleOutcome ==
    /\ Cardinality({r \in Requests : Exchanged(r)}) <= 1
    /\ Cardinality({r \in Requests : sends[r] > 0}) <= 1

\* C8 as stated: every request with a non-empty error parameter gets an error
\* outcome that contains the error and the error_description, and no exchange
\* (a request carries its parameters when its form parses).
C8_AsClaimed ==
    \A r \in Requests :
        (Handled(r) /\ req[r].parseOK /\ req[r].error # Empty) =>
            /\ ~Exchanged(r)
            /\ Concluded(r)
            /\ IsErrorOutcome(msg[r])
            /\ Contains(msg[r].err, req[r].error)
            /\ Contains(msg[r].err, req[r].desc)

\* C8 amended: every request whose form parses, whose state parameter is
\* non-empty and whose error parameter is non-empty gets an error outcome,
\* marked as the provider's, that contains the error and the
\* error_description, and no exchange; with the state absent or the form
\* unparsable the outcome is still an error and there is still no exchange.
C8_ProviderErrorPassthrough ==
    \A r \in Requests :
        (Handled(r) /\ req[r].error # Empty) =>
            /\ ~Exchanged(r)
            /\ Concluded(r)
            /\ IsErrorOutcome(msg[r])
            /\ hpc[r] = "done" => Delivered(r)
            /\ (req[r].parseOK /\ req[r].state # Empty) =>
                  /\ Contains(msg[r].err, <<"Got error from provider:">>)
                  /\ Contains(msg[r].err, req[r].error)
                  /\ Contains(msg[r].err, req[r].desc)

\* A provider error with a description, on a request whose state is not the
\* expected one, reached the waiting side with both values.
C8_Witness ==
    /\ req[1].parseOK /\ req[1].state # Empty /\ req[1].state # expectedState
    /\ req[1].error = <<"access_denied">>
    /\ req[1].desc = <<"user", "cancelled">>
    /\ hpc[1] = "done" /\ orch = "received"
    /\ Contains(result.err, <<"access_denied", "Desc:", "user", "cancelled">>)

\* The first check a request fails, in the handler's order.
FirstFailure(q, expected) ==
    IF ~q.parseOK THEN <<"Failed to parse request form. Err:">>
    ELSE IF q.state = Empty THEN <<"User session error. No state parameter.">>
    ELSE IF q.error # Empty THEN <<"Got error from provider:">>
    ELSE IF q.code = Empty THEN <<"Missing code token.">>
    ELSE IF q.state # expected THEN <<"Invalid state parameter. Got">>
    ELSE Empty

\* C9: an invocation of the handler completes at most one send and has
\* completed exactly one when it returns; the message is the one it built; it
\* carries a token and no error exactly when every validation passed and the
\* exchange succeeded, and otherwise the first error met and no token.
C9_OneOutcomePerInvocation ==
    \A r \in Requests :
        /\ sends[r] = (IF hpc[r] = "done" THEN 1 ELSE 0)
        /\ hpc[r] = "done" => Delivered(r)
        /\ ~Concluded(r) => msg[r] = NoMsg
        /\ Concluded(r) =>
              LET why == FirstFailure(req[r], expectedState)
              IN /\ IsErrorOutcome(msg[r]) \/ IsTokenOutcome(msg[r])
                 /\ why # Empty =>
                       /\ IsErrorOutcome(msg[r])
                       /\ Contains(msg[r].err, why)
                       /\ ~Exchanged(r)
                 /\ why = Empty =>
                       /\ Exchanged(r)
                       /\ IsErrorOutcome(msg[r]) => msg[r].err \in ExchangeErrs
                 /\ IsTokenOutcome(msg[r]) <=>
                       (why = Empty /\ msg[r].err \notin ExchangeErrs)

\* A successful exchange delivered its token, and the handler returned.
C9_Witness ==
    /\ hpc[1] = "done" /\ sends[1] = 1
    /\ orch = "received" /\ IsTokenOutcome(result)

\* C10: whatever the request, the expected state and the outcome, the
\* response written to the browser is status 200 with the one completion
\* text, so any two handler runs write identical responses; nothing is
\* written before the outcome is known.
C10_SameBrowserResponse ==
    \A r \in Requests :
        /\ Concluded(r) =>
              /\ resp[r].status = 200
              /\ resp[r].body = <<"OIDC authentication flow is completed.",
                                  "You can close browser tab.">>
        /\ ~Concluded(r) => resp[r] = NoResp

\* An error outcome was answered with the completion text.
C10_Witness ==
    /\ hpc[1] = "done" /\ IsErrorOutcome(msg[1])
    /\ req[1].error # Empty
    /\ resp[1] = OKCallbackResponse


(* ------------------ further claims on ReuseTokenSource ----------------- *)

\* C17: a successful OIDCToken() call returns the token that is cached when
\* it releases the lock; that token either is the one the call found cached
\* and the verifier accepted in this call, with no fetch, or is the one the
\* call's single fetch returned, cached with no check of its own; a call that
\* finds the cached token rejected by the verifier, freshly fetched or not,
\* fetches again.
C17_ReturnsCachedToken ==
    /\ (LastIsGet /\ ~last.err) =>
          /\ last.tok # Nil
          /\ last.tok = last.tAfter
          /\ \/ /\ last.fetches = 0
                /\ last.seen.verdict = "valid"
                /\ last.tok = last.seen.tok
             \/ /\ last.fetches = 1
                /\ last.seen.verdict \in {"none", "invalid"}
    /\ (LastIsGet /\ last.seen.verdict = "invalid") => last.fetches = 1
    /\ \A g \in Goroutines :
          (pc[g] = "fetch" /\ prev.kind = "fetched" /\ seen[g].tok = prev.tok)
              => seen[g].verdict = "invalid"

\* A call fetched and returned a token; the next call found that same token
\* cached, the verifier rejected it, and the call fetched again.
C17_Witness ==
    /\ prev.kind = "fetched"
    /\ LastIsGet /\ ~last.err
    /\ last.seen.tok = prev.tok
    /\ last.seen.verdict = "invalid"
    /\ last.fetches = 1
    /\ last.tok = last.tAfter

\* C19: the mutex is held exactly by a call that is between its s.mu.Lock()
\* and its return, so every exit of OIDCToken() (cache hit, successful fetch,
\* failed fetch) and of reset() releases it, and a call never waits for the
\* mutex while holding it; with fair scheduling and a wrapped source that
\* always returns, every call issued by any goroutine returns.
C19_CallsReturn ==
    /\ [](\A g \in Goroutines : (mu = g) <=> InCritical(g))
    /\ [](mu # Nil => mu \in Goroutines)
    /\ \A g \in Goroutines : []<>(pc[g] = "idle")

\* A call that waited for the mutex behind a fetch that failed has returned,
\* and the mutex is free.
C19_Witness ==
    /\ LastIsGet
    /\ last.behind.st = "failed"
    /\ prev.kind = "failed"
    /\ mu = Nil

(* -------------------- further claims on callbackHandler ---------------- *)

\* The error is one of the two the handler reports about the state parameter.
IsStateError(err) ==
    \/ Contains(err, <<"User session error. No state parameter.">>)
    \/ Contains(err, <<"Invalid state parameter. Got">>)

\* C13: the handler validates in the order state, provider error, code: a
\* request whose state is absent or differs from expectedState gets the state
\* error whatever its error and code parameters are; a request whose state is
\* the expected one and that carries an error parameter gets the provider
\* error; the missing-code error is only reported for a request whose state
\* is the expected one and that carries no error parameter.
C13_StateFirst ==
    \A r \in Requests :
        (Concluded(r) /\ req[r].parseOK) =>
            LET badState ==
                    req[r].state = Empty \/ req[r].state # expectedState
            IN /\ badState => IsStateError(msg[r].err)
               /\ (~badState /\ req[r].error # Empty) =>
                     Contains(msg[r].err, <<"Got error from provider:">>)
               /\ Contains(msg[r].err, <<"Missing code token.">>) =>
                     (~badState /\ req[r].error = Empty)

\* C14: the context the handler passes to Exchange carries the request
\* context's HTTP client when the request context has one, also when the
\* flow's context has one too, and the flow's client otherwise; the other
\* values of the request context are kept in both cases.
C14_RequestClientFirst ==
    \A r \in Requests :
        Exchanged(r) =>
            /\ exchArgs[r].ctx.client =
                  (IF req[r].ctx.client # NoClient
                   THEN req[r].ctx.client ELSE oidcCtx.client)
            /\ exchArgs[r].ctx.other = req[r].ctx.other

\* Both contexts supply a client and the exchange ran with the request's.
C14_Witness ==
    /\ req[1].ctx.client = "reqClient"
    /\ oidcCtx.client = "flowClient"
    /\ Exchanged(1)
    /\ exchArgs[1].ctx.client = "reqClient"

\* C15: every invocation of the handler terminates: a handler that has
\* reached its channel send is never left with a full channel that nobody
\* reads any more (the waiting side reads at most once, and not at all after
\* its timeout or cancellation).
C15_SendCompletes ==
    \A r \in Requests :
        hpc[r] = "send" => (Len(chan) < ChanCap \/ orch = "waiting")

\* C16: a handler that is at its channel send, or past it, has written its
\* browser response; every message on the channel, and the message the
\* waiting side has read, was sent before by a handler that had written its
\* response.
C16_ResponseBeforeSend ==
    /\ \A r \in Requests :
          (hpc[r] = "send" \/ sends[r] > 0) =>
              /\ msg[r] # NoMsg
              /\ resp[r] \in {OKCallbackResponse, ErrCallbackResponse(msg[r].err)}
    /\ \A i \in 1..Len(chan) :
          \E r \in Requests :
              sends[r] > 0 /\ msg[r] = chan[i] /\ resp[r] # NoResp
    /\ orch = "received" =>
          \E r \in Requests :
              sends[r] > 0 /\ msg[r] = result /\ resp[r] # NoResp

\* The waiting side has read an error outcome whose handler had answered the
\* browser.
C16_Witness ==
    /\ orch = "received"
    /\ ~listening
    /\ IsErrorOutcome(result)
    /\ \E r \in Requests :
          hpc[r] = "done" /\ msg[r] = result /\ resp[r] = ErrCallbackResponse(result.err)

(* ----------------------- claims on TokenRefresher ---------------------- *)

\* The last completed call reached the token endpoint.
RefresherSent == rlast.calls = 1

C12_NoRefreshToken ==
    /\ (rlast.kind # "none" /\ rlast.held = Empty)
          => /\ rlast.kind = "norefresh"
             /\ rlast.err # NoErr
             /\ rlast.tok = Nil
             /\ rlast.calls = 0
             /\ rlast.sent = NoValues
             /\ rlast.heldAfter = rlast.held
    /\ rpc = "token" => (refreshToken # Empty /\ rsent.refresh_token # Empty)

\* A refresher constructed with an empty refresh token was called once.
C12_Witness ==
    /\ rprev.kind = "none"
    /\ rlast.kind = "norefresh"
    /\ rlast.calls = 0
    /\ refreshToken = Empty

\* C18: after a successful call the held refresh token is the refresh token
\* of the response, also when that is empty; a call that follows a successful
\* one whose response carried no refresh token fails with the
\* no-refresh-token error and makes no request.
C18_HeldEqualsResponse ==
    /\ rlast.kind = "ok" =>
          /\ rlast.heldAfter = rlast.respRT
          /\ rpc = "idle" => refreshToken = rlast.respRT
    /\ (rprev.kind = "ok" /\ rprev.respRT = Empty) =>
          /\ rlast.kind = "norefresh"
          /\ rlast.calls = 0
          /\ rlast.tok = Nil
          /\ rlast.err = <<"oauth2: token expired and refresh token is not set">>
          /\ rpc = "idle"
          /\ refreshToken = Empty
    /\ rlast.kind = "norefresh" => (refreshToken = Empty /\ rpc = "idle")

\* A refresher that held a refresh token got a response without one, and its
\* next call failed without a request.
C18_Witness ==
    /\ rprev.kind = "ok"
    /\ rprev.sentRT # Empty
    /\ rprev.respRT = Empty
    /\ rlast.kind = "norefresh"
    /\ rlast.calls = 0

\* C20: a call whose token endpoint call fails returns that error and no
\* token and leaves the held refresh token as it was; the request of the next
\* call carries the same refresh token; the held refresh token differs after
\* a call from what it was before only when the call succeeded.
C20_FailureKeepsRefreshToken ==
    /\ rlast.kind = "err" =>
          /\ rlast.err \in TokenEndpointErrs
          /\ rlast.tok = Nil
          /\ rlast.heldAfter = rlast.held
          /\ rlast.held = rlast.sent.refresh_token
          /\ rpc = "idle" => refreshToken = rlast.held
          /\ rpc = "token" => rsent.refresh_token = rlast.sent.refresh_token
    /\ (rprev.kind = "err" /\ rlast.kind # "none") =>
          /\ RefresherSent
          /\ rlast.sent.refresh_token = rprev.sentRT
    /\ rlast.heldAfter # rlast.held => rlast.kind = "ok"

\* The token endpoint failed, and the next call sent the same refresh token
\* and succeeded.
C20_Witness ==
    /\ rprev.kind = "err"
    /\ rlast.kind = "ok"
    /\ rlast.sent.refresh_token = rprev.sentRT
    /\ rlast.sent.refresh_token # Empty

====
